---- MODULE Spec2Model ----
(***************************************************************************)
(* A model of two yew_styles components:                                   *)
(*   components/button.rs               Button                             *)
(*   components/forms/form_textarea.rs  FormTextArea                       *)
(*                                                                         *)
(* A Rust String is a sequence of one-character strings, so that the       *)
(* output of format! and of the class list can be inspected character by   *)
(* character.  Enum variants are TLA+ strings carrying the variant's name. *)
(* A Callback is the identity of the closure it wraps.                     *)
(***************************************************************************)
EXTENDS Integers, Sequences, FiniteSets, TLC

VARIABLES
    b_props,      \* Button.props : ButtonProps
    b_supplied,   \* the Props last handed to Button::create / Button::change
    b_msgs,       \* Msg values sent through Button.link, not yet handled
    b_clicks,     \* number of native click events on the <button>
    b_emitted,    \* the onsignal emissions so far, oldest first
    b_render,     \* ShouldRender returned by the last Button handler
    b_class,      \* class attribute of the <button> as last rendered
    b_op,         \* the last Button operation
    t_props,      \* FormTextArea.props : Props
    t_supplied,   \* the Props last handed to FormTextArea::create / change
    t_msgs,       \* Msg values sent through FormTextArea.link, not yet handled
    t_events,     \* native events received by the <textarea>, oldest first
    t_emitted,    \* the callback emissions so far, oldest first
    t_render,     \* ShouldRender returned by the last FormTextArea handler
    t_html,       \* the <textarea> as last rendered
    t_op,         \* the last FormTextArea operation
    v_props,      \* Props of the FormTextArea whose view is evaluated
    v_styles,     \* the table get_styles() returns
    v_out,        \* the outcome of evaluating FormTextArea::view
    v_sheet       \* the sheet style_from yielded during that evaluation

vars == <<b_props, b_supplied, b_msgs, b_clicks, b_emitted, b_render, b_class,
          b_op, t_props, t_supplied, t_msgs, t_events, t_emitted,
          t_render, t_html, t_op, v_props, v_styles, v_out, v_sheet>>

b_vars == <<b_props, b_supplied, b_msgs, b_clicks, b_emitted, b_render,
            b_class, b_op>>
t_vars == <<t_props, t_supplied, t_msgs, t_events, t_emitted,
            t_render, t_html, t_op>>
v_vars == <<v_props, v_styles, v_out, v_sheet>>

(***************************************************************************)
(* Bounds.                                                                 *)
(***************************************************************************)
MaxClicks == 2     \* native click events on the Button in one behaviour
MaxEvents == 2     \* native events on the FormTextArea in one behaviour

(***************************************************************************)
(* String literals.                                                        *)
(***************************************************************************)
SP == " "
S_empty == << >>
S_button == <<"b", "u", "t", "t", "o", "n">>
S_standard == <<"s", "t", "a", "n", "d", "a", "r", "d">>
S_info == <<"i", "n", "f", "o">>
S_success == <<"s", "u", "c", "c", "e", "s", "s">>
S_warning == <<"w", "a", "r", "n", "i", "n", "g">>
S_danger == <<"d", "a", "n", "g", "e", "r">>
S_light == <<"l", "i", "g", "h", "t">>
S_dark == <<"d", "a", "r", "k">>
S_clean == <<"c", "l", "e", "a", "n">>
S_secondary == <<"s", "e", "c", "o", "n", "d", "a", "r", "y">>
S_small == <<"s", "m", "a", "l", "l">>
S_medium == <<"m", "e", "d", "i", "u", "m">>
S_big == <<"b", "i", "g">>
S_regular == <<"r", "e", "g", "u", "l", "a", "r">>
S_outline == <<"o", "u", "t", "l", "i", "n", "e">>
S_hello_world == <<"h", "e", "l", "l", "o", "-", "w", "o", "r", "l", "d">>
S_my_class == <<"m", "y", "-", "c", "l", "a", "s", "s">>
S_hard == <<"h", "a", "r", "d">>
S_soft == <<"s", "o", "f", "t">>
S_off == <<"o", "f", "f">>

(***************************************************************************)
(* crate::styles : Palette, Style and their string conversions.  The       *)
(* module is not among the sources; the variants and the names are those   *)
(* the specification lists.                                                *)
(***************************************************************************)
Palette == {"Standard", "Info", "Success", "Warning", "Danger", "Light",
            "Dark", "Clean", "Secondary"}

Style == {"Regular", "Light", "Outline"}

get_pallete(palette) ==
    CASE palette = "Standard"  -> S_standard
      [] palette = "Info"      -> S_info
      [] palette = "Success"   -> S_success
      [] palette = "Warning"   -> S_warning
      [] palette = "Danger"    -> S_danger
      [] palette = "Light"     -> S_light
      [] palette = "Dark"      -> S_dark
      [] palette = "Clean"     -> S_clean
      [] palette = "Secondary" -> S_secondary

get_style(style) ==
    CASE style = "Regular" -> S_regular
      [] style = "Light"   -> S_light
      [] style = "Outline" -> S_outline

(***************************************************************************)
(* button.rs                                                               *)
(***************************************************************************)
Size == {"Small", "Medium", "Big"}

get_size_swapped(size) ==
    CASE size = "Small"  -> S_small
      [] size = "Medium" -> S_big
      [] size = "Big"    -> S_medium

get_size(size) ==
    CASE size = "Small"  -> S_small
      [] size = "Medium" -> S_medium
      [] size = "Big"    -> S_big

\* The closures a caller may pass as onsignal.
ButtonCallbacks == {"on_a", "on_b"}

\* The class names a caller may pass; the first is the default (prop_or_default).
ButtonClassNames == {S_empty, S_hello_world, S_my_class}

\* struct Props (children, which no handler reads, is left out).
Props == [button_type : Palette, class_name : ButtonClassNames, size : Size,
          button_style : Style, onsignal : ButtonCallbacks]

\* impl From<Props> for ButtonProps
ButtonProps_from(props) ==
    [button_type  |-> get_pallete(props.button_type),
     size         |-> get_size(props.size),
     button_style |-> get_style(props.button_style),
     class_name   |-> props.class_name,
     onsignal     |-> props.onsignal]

\* Button::view : the class attribute,
\* format!("button {} {} {} {}", button_type, size, button_style, class_name)
Button_view(props) ==
    S_button \o <<SP>> \o props.button_type \o <<SP>> \o props.size
             \o <<SP>> \o props.button_style \o <<SP>> \o props.class_name

\* Button::create, followed by the first render.
Button_create(p) ==
    /\ b_props = ButtonProps_from(p)
    /\ b_supplied = p
    /\ b_msgs = << >>
    /\ b_clicks = 0
    /\ b_emitted = << >>
    /\ b_render = TRUE
    /\ b_class = Button_view(ButtonProps_from(p))
    /\ b_op = "create"

\* A native click on the rendered <button>: onclick=link.callback(|_| Msg::Clicked)
Button_onclick ==
    /\ b_clicks < MaxClicks
    /\ b_clicks' = b_clicks + 1
    /\ b_msgs' = Append(b_msgs, "Clicked")
    /\ b_op' = "click"
    /\ UNCHANGED <<b_props, b_supplied, b_emitted, b_render, b_class>>

Button_update_silent ==
    /\ b_msgs # << >>
    /\ b_msgs' = Tail(b_msgs)
    /\ b_render' = FALSE
    /\ b_op' = "update"
    /\ UNCHANGED <<b_props, b_supplied, b_clicks, b_class, b_emitted>>

\* Button::update on the oldest pending message; it returns false, so the
\* view is not evaluated again.
Button_update ==
    /\ b_msgs # << >>
    /\ Head(b_msgs) = "Clicked"
    /\ b_msgs' = Tail(b_msgs)
    /\ b_emitted' = Append(b_emitted, [cb |-> b_props.onsignal, arg |-> << >>])
    /\ b_render' = FALSE
    /\ b_op' = "update"
    /\ UNCHANGED <<b_props, b_supplied, b_clicks, b_class>>

Button_change_keeping_class(p) ==
    /\ b_props' = [ButtonProps_from(p) EXCEPT !.class_name = b_props.class_name]
    /\ b_supplied' = p
    /\ b_render' = TRUE
    /\ b_class' = Button_view(b_props')
    /\ b_op' = "change"
    /\ UNCHANGED <<b_msgs, b_clicks, b_emitted>>

\* Button::change; it returns true, so the view is evaluated again.
Button_change(p) ==
    /\ b_props' = ButtonProps_from(p)
    /\ b_supplied' = p
    /\ b_render' = TRUE
    /\ b_class' = Button_view(b_props')
    /\ b_op' = "change"
    /\ UNCHANGED <<b_msgs, b_clicks, b_emitted>>

(***************************************************************************)
(* crate::styles::helpers and crate::styles::colors, as FormTextArea uses  *)
(* them.  Neither module is among the sources; what follows is taken from  *)
(* the specification: a closed Palette and Size, a shade function that     *)
(* moves a colour by a signed percentage and clamps, and a table of        *)
(* palette entries per style mode.  A colour is its lightness, 0 (black)   *)
(* to 100 (white).                                                         *)
(***************************************************************************)
helpers_Palette == Palette

helpers_Size == {"Small", "Medium", "Big"}

get_palette(palette) == get_pallete(palette)

helpers_get_size(size) ==
    CASE size = "Small"  -> S_small
      [] size = "Medium" -> S_medium
      [] size = "Big"    -> S_big

Black == 0
White == 100

darker(color, percent) ==
    LET moved == color + percent
    IN  IF moved < Black THEN Black ELSE IF moved > White THEN White ELSE moved

\* A CSS rule.  A value is either a literal (lit) or a colour (color); the
\* other field is "" or NoColor.
NoColor == 0 - 1
Lit(sel, prop, text) == [sel |-> sel, prop |-> prop, lit |-> text, color |-> NoColor]
Col(sel, prop, c) == [sel |-> sel, prop |-> prop, lit |-> "", color |-> c]

\* get_iteractions(rule, color, focus, hover, active)
get_iteractions(rule, color, focus, hover, active) ==
    << Col("&:focus", rule, darker(color, focus)),
       Col("&:hover", rule, darker(color, hover)),
       Col("&:active", rule, darker(color, active)) >>

\* A palette entry of the table.
Entry(name, color, border) == [name |-> name, color |-> color, border_color |-> border]

\* The "outline" sub-table with one entry per Palette token.
OutlineEntries ==
    << Entry(S_standard, 60, 50), Entry(S_info, 45, 40),
       Entry(S_success, 35, 30), Entry(S_warning, 55, 65),
       Entry(S_danger, 25, 20), Entry(S_light, 90, 95),
       Entry(S_dark, 15, 5), Entry(S_clean, 100, 100),
       Entry(S_secondary, 70, 75) >>

\* get_styles(): the table as the library defines it ...
get_styles ==
    [mode \in {"regular", "light", "outline"} |-> OutlineEntries]

\* ... and the tables a defective definition of it could return: no
\* "outline" sub-table, a sub-table lacking entries, a sub-table naming an
\* entry twice.
StyleTables ==
    { get_styles,
      [mode \in {"regular", "light"} |-> OutlineEntries],
      [mode \in {"regular", "light", "outline"} |-> SubSeq(OutlineEntries, 1, 4)],
      [mode \in {"regular", "light", "outline"} |->
          <<Entry(S_info, 45, 40), Entry(S_standard, 60, 50),
            Entry(S_standard, 80, 85), Entry(S_info, 10, 30)>> \o
          SubSeq(OutlineEntries, 3, 9)] }

(***************************************************************************)
(* stylist and yew, as far as FormTextArea relies on them.                 *)
(***************************************************************************)
\* Decimal digits of a natural number.
Digit == <<"0", "1", "2", "3", "4", "5", "6", "7", "8", "9">>

RECURSIVE Dec(_)
Dec(n) == IF n < 10 THEN <<Digit[n + 1]>>
          ELSE Dec(n \div 10) \o <<Digit[(n % 10) + 1]>>

\* Option<T>: << >> is None, <<x>> is Some(x).
None == << >>
Some(x) == <<x>>

\* HashMap::get
HashMap_get(map, key) == IF key \in DOMAIN map THEN Some(map[key]) ELSE None

\* Iterator::find with the predicate |pallete| pallete.name == name: the
\* first element of that name.
Iterator_find(seq, name) ==
    LET hits == {i \in DOMAIN seq : seq[i].name = name}
    IN  IF hits = {} THEN None
        ELSE Some(seq[CHOOSE i \in hits : \A j \in hits : i <= j])

\* str::split_whitespace: the maximal runs of non-space characters.
RECURSIVE split_whitespace(_)
split_whitespace(s) ==
    IF s = << >> THEN << >>
    ELSE IF Head(s) = SP THEN split_whitespace(Tail(s))
    ELSE LET rest == split_whitespace(Tail(s))
         IN  IF Len(s) > 1 /\ s[2] # SP
             THEN <<(<<Head(s)>> \o Head(rest))>> \o Tail(rest)
             ELSE <<(<<Head(s)>>)>> \o rest

\* Classes::push: Classes is an insertion-ordered set, so a class already in
\* the list keeps its place and is not added again.
RECURSIVE Classes_push(_, _)
Classes_push(classes, toks) ==
    IF toks = << >> THEN classes
    ELSE Classes_push(IF \E i \in DOMAIN classes : classes[i] = Head(toks)
                      THEN classes ELSE Append(classes, Head(toks)),
                      Tail(toks))

\* The class name under which stylist registers a style sheet: equal sheets
\* share one registered style, different sheets get different names.  The
\* name is built from the sheet's length and its colour values.
RECURSIVE sheet_key(_)
sheet_key(sheet) ==
    IF sheet = << >> THEN << >>
    ELSE (IF Head(sheet).color = NoColor THEN << >>
          ELSE <<"-">> \o Dec(Head(sheet).color)) \o sheet_key(Tail(sheet))

Style_get_class_name(sheet) ==
    <<"c", "s", "s", "-">> \o Dec(Len(sheet)) \o sheet_key(sheet)

(***************************************************************************)
(* forms/form_textarea.rs                                                  *)
(***************************************************************************)
WrapText == {"Hard", "Soft", "Off"}

\* The closures a caller may pass as oninput_signal, onblur_signal and
\* onkeydown_signal.
InputCallbacks == {"input_a", "input_b"}
BlurCallbacks == {"blur_a", "blur_b"}
KeydownCallbacks == {"keydown_a", "keydown_b"}

\* css!("") and css!("background-color: #918d94;")
Css_empty == << >>
Css_background == <<Lit("&", "background-color", "#918d94")>>

\* The named arguments of the css! call in style_from.
iteractions(color) ==
    get_iteractions("border-color", color.border_color, 0 - 10, 0 - 20, 0 - 30)

focus_color(color) == darker(color.border_color, 0 - 10)

hover_color_as_focus(color) == darker(color.border_color, 0 - 10)

hover_color(color) == darker(color.border_color, 0 - 20)

active_color(color) == darker(color.border_color, 0 - 30)

\* FormTextArea as YieldStyle: the sheet built from a palette entry.
style_sheet(color) ==
    << Lit("&", "padding", "5px"),
       Lit("&", "height", "100px"),
       Lit("&", "box-sizing", "border-box"),
       Lit("&", "border-radius", "5px"),
       Lit("&", "width", "100%"),
       Col("&", "border", color.border_color) >>
    \o iteractions(color) \o
    << Lit("&.hidden", "display", "none"),
       Col("&::-webkit-input-placeholder", "color", color.color),
       Col("&:-moz-placeholder", "color", color.color),
       Col("&::-moz-placeholder", "color", color.color),
       Col("&:-ms-input-placeholder", "color", color.color),
       Lit("&.small", "height", "50px"),
       Lit("&.big", "height", "250px"),
       Lit("&.underline", "border-radius", "2px"),
       Lit("&.underline", "border-top", "0"),
       Lit("&.underline", "border-left", "0"),
       Lit("&.underline", "border-right", "0"),
       Col("&.underline", "border-bottom", color.border_color),
       Col("&.underline:focus", "border-bottom-color", focus_color(color)),
       Col("&.underline:hover", "border-bottom-color", hover_color(color)),
       Col("&.underline:active", "border-bottom-color", active_color(color)) >>

\* The palette lookup of style_from:
\*   styles.get("outline").unwrap().iter().find(|p| p.name == ...).unwrap()
\* None where one of the two unwrap calls panics, Some(entry) otherwise.
style_from_color_defaulting(styles, textarea_style) ==
    LET table == HashMap_get(styles, "outline")
        sub == IF table = None THEN styles["regular"] ELSE table[1]
        hit == Iterator_find(sub, get_palette(textarea_style))
    IN  IF hit = None THEN Some(sub[1]) ELSE hit

style_from_color(styles, textarea_style) ==
    LET table == HashMap_get(styles, "outline")
    IN  IF table = None THEN None
        ELSE Iterator_find(table[1], get_palette(textarea_style))

\* style_from: None for a panic, Some(sheet) otherwise.
style_from(styles, props) ==
    LET color == style_from_color(styles, props.textarea_style)
    IN  IF color = None THEN None ELSE Some(style_sheet(color[1]))

get_wrap(wrap_text) ==
    CASE wrap_text = "Hard" -> S_hard
      [] wrap_text = "Off"  -> S_soft
      [] wrap_text = "Soft" -> S_off

\* classes!(a, b, c, d): the arguments pushed in order.
classes_replacing(style, size, class_name, styles) ==
    Classes_push(Classes_push(Classes_push(<< >>, <<Style_get_class_name(styles)>>),
                              split_whitespace(size)),
                 split_whitespace(class_name))

classes(style, size, class_name, styles) ==
    Classes_push(Classes_push(Classes_push(Classes_push(<< >>,
        <<Style_get_class_name(style)>>),
        split_whitespace(size)),
        split_whitespace(class_name)),
        <<Style_get_class_name(styles)>>)

\* FormTextArea::view: the class list and the wrap attribute of the
\* <textarea>, or a panic raised by style_from.
FormTextArea_view(styles, props) ==
    LET style == style_from(styles, props)
    IN  IF style = None
        THEN [panic |-> TRUE, class |-> << >>, warp |-> << >>]
        ELSE [panic |-> FALSE,
              class |-> classes(style[1], helpers_get_size(props.textarea_size),
                                props.class_name, props.styles),
              warp  |-> get_wrap(props.wrap)]

\* The values a caller may pass for class_name and styles.  Besides the
\* defaults and plain values there is a class_name that repeats the class of
\* the style override, and a style override equal to the component's own
\* sheet for Palette::Standard.
TextAreaClassNames ==
    {S_empty, S_my_class, Style_get_class_name(Css_background) \o <<SP>> \o S_my_class}

TextAreaStyleSources == {Css_empty, Css_background, style_sheet(OutlineEntries[1])}

\* struct Props, the fields view, update and change read.  The remaining
\* fields (id, key, code_ref, name, placeholder, the numeric and boolean
\* attributes, error_state, error_message) are copied to the markup and take
\* part in nothing modelled here.
FormTextArea_Props ==
    [class_name : TextAreaClassNames, textarea_style : helpers_Palette,
     textarea_size : helpers_Size, wrap : WrapText,
     styles : TextAreaStyleSources, oninput_signal : InputCallbacks,
     onblur_signal : BlurCallbacks, onkeydown_signal : KeydownCallbacks]

\* The property sets the parent view of the life-cycle model hands over.
ParentProps ==
    {[class_name |-> c, textarea_style |-> t, textarea_size |-> "Medium",
      wrap |-> "Soft", styles |-> Css_empty, oninput_signal |-> k[1],
      onblur_signal |-> k[2], onkeydown_signal |-> k[3]] :
        c \in {S_empty, S_my_class}, t \in {"Standard", "Info"},
        k \in {<<"input_a", "blur_a", "keydown_a">>,
               <<"input_b", "blur_b", "keydown_b">>}}

\* The property sets a parent hands to Button::change.
ChangedProps ==
    {[button_type |-> t, class_name |-> c, size |-> z, button_style |-> y,
      onsignal |-> k] :
        t \in {"Standard", "Danger"}, c \in {S_empty, S_hello_world},
        z \in {"Medium", "Big"}, y \in {"Regular", "Outline"},
        k \in ButtonCallbacks}

\* What the rendering runtime shows after a render pass of the life-cycle
\* model: FormTextArea::view under the library's own table.
FormTextArea_render == [p \in ParentProps |-> FormTextArea_view(get_styles, p)]

\* The native event objects.
NativeEvents == {"e1", "e2"}

\* FormTextArea::create, followed by the first render.
FormTextArea_create(p) ==
    /\ t_props = p
    /\ t_supplied = p
    /\ t_msgs = << >>
    /\ t_events = << >>
    /\ t_emitted = << >>
    /\ t_render = TRUE
    /\ t_html = FormTextArea_render[p]
    /\ t_op = "create"

\* oninput=self.link.callback(Msg::Input)
FormTextArea_oninput(e) ==
    /\ Len(t_events) < MaxEvents
    /\ t_events' = Append(t_events, [event |-> "input", arg |-> e])
    /\ t_msgs' = Append(t_msgs, [msg |-> "Input", arg |-> e])
    /\ t_op' = "input"
    /\ UNCHANGED <<t_props, t_supplied, t_emitted, t_render, t_html>>

\* onblur=self.link.callback(Msg::Blur)
FormTextArea_onblur(e) ==
    /\ Len(t_events) < MaxEvents
    /\ t_events' = Append(t_events, [event |-> "blur", arg |-> e])
    /\ t_msgs' = Append(t_msgs, [msg |-> "Blur", arg |-> e])
    /\ t_op' = "blur"
    /\ UNCHANGED <<t_props, t_supplied, t_emitted, t_render, t_html>>

\* onkeydown=self.link.callback(Msg::KeyPressed)
FormTextArea_onkeydown(e) ==
    /\ Len(t_events) < MaxEvents
    /\ t_events' = Append(t_events, [event |-> "keydown", arg |-> e])
    /\ t_msgs' = Append(t_msgs, [msg |-> "KeyPressed", arg |-> e])
    /\ t_op' = "keydown"
    /\ UNCHANGED <<t_props, t_supplied, t_emitted, t_render, t_html>>

\* The emission FormTextArea::update makes for a message.
update_emit_misrouted(props, m) ==
    CASE m.msg = "Input"      -> [cb |-> props.oninput_signal, arg |-> m.arg]
      [] m.msg = "Blur"       -> [cb |-> props.onkeydown_signal, arg |-> m.arg]
      [] m.msg = "KeyPressed" -> [cb |-> props.onkeydown_signal, arg |-> m.arg]

update_emit(props, m) ==
    CASE m.msg = "Input"      -> [cb |-> props.oninput_signal, arg |-> m.arg]
      [] m.msg = "Blur"       -> [cb |-> props.onblur_signal, arg |-> m.arg]
      [] m.msg = "KeyPressed" -> [cb |-> props.onkeydown_signal, arg |-> m.arg]

\* FormTextArea::update on the oldest pending message; it returns true, so
\* the view is evaluated again.
FormTextArea_update ==
    /\ t_msgs # << >>
    /\ t_msgs' = Tail(t_msgs)
    /\ t_emitted' = Append(t_emitted, update_emit(t_props, Head(t_msgs)))
    /\ t_render' = TRUE
    /\ t_html' = FormTextArea_render[t_props]
    /\ t_op' = "update"
    /\ UNCHANGED <<t_props, t_supplied, t_events>>

\* The ShouldRender FormTextArea::change returns.
change_should_render_always(old, new) == TRUE

change_should_render(old, new) == old # new

\* FormTextArea::change: the view is evaluated again only when it returns true.
FormTextArea_change(p) ==
    /\ t_supplied' = p
    /\ t_render' = change_should_render(t_props, p)
    /\ IF change_should_render(t_props, p)
       THEN /\ t_props' = p
            /\ t_html' = FormTextArea_render[p]
       ELSE UNCHANGED <<t_props, t_html>>
    /\ t_op' = "change"
    /\ UNCHANGED <<t_msgs, t_events, t_emitted>>

\* One evaluation of FormTextArea::view for the properties and the table
\* chosen initially.
View_eval ==
    /\ v_out = None
    /\ v_sheet = None
    /\ v_out' = Some(FormTextArea_view(v_styles, v_props))
    /\ v_sheet' = style_from(v_styles, v_props)
    /\ UNCHANGED <<v_props, v_styles>>

(***************************************************************************)
(* Specifications.                                                         *)
(***************************************************************************)
\* The defaults of the property sets (prop_or, prop_or_default).
Props_default ==
    [button_type |-> "Standard", class_name |-> S_empty, size |-> "Medium",
     button_style |-> "Regular", onsignal |-> "on_a"]

FormTextArea_Props_default ==
    [class_name |-> S_empty, textarea_style |-> "Standard",
     textarea_size |-> "Medium", wrap |-> "Soft", styles |-> Css_empty,
     oninput_signal |-> "input_a", onblur_signal |-> "blur_a",
     onkeydown_signal |-> "keydown_a"]

ViewInit(P, T) ==
    /\ v_props \in P
    /\ v_styles \in T
    /\ v_out = None
    /\ v_sheet = None

\* A Button through its life cycle.
Init ==
    /\ \E p \in Props : Button_create(p)
    /\ FormTextArea_create(FormTextArea_Props_default)
    /\ ViewInit({FormTextArea_Props_default}, {get_styles})

Next ==
    /\ \/ Button_onclick
       \/ Button_update
       \/ \E p \in ChangedProps : Button_change(p)
    /\ UNCHANGED <<t_vars, v_vars>>

Spec == Init /\ [][Next]_vars

\* A FormTextArea through its life cycle.
InitTextArea ==
    /\ Button_create(Props_default)
    /\ \E p \in ParentProps : FormTextArea_create(p)
    /\ ViewInit({FormTextArea_Props_default}, {get_styles})

NextTextArea ==
    /\ \/ \E e \in NativeEvents : FormTextArea_oninput(e)
       \/ \E e \in NativeEvents : FormTextArea_onblur(e)
       \/ \E e \in NativeEvents : FormTextArea_onkeydown(e)
       \/ FormTextArea_update
       \/ \E p \in ParentProps : FormTextArea_change(p)
    /\ UNCHANGED <<b_vars, v_vars>>

SpecTextArea == InitTextArea /\ [][NextTextArea]_vars

\* FormTextArea::view over every property set and every table.
InitView ==
    /\ Button_create(Props_default)
    /\ FormTextArea_create(FormTextArea_Props_default)
    /\ ViewInit(FormTextArea_Props, StyleTables)

NextView == View_eval /\ UNCHANGED <<b_vars, t_vars>>

SpecView == InitView /\ [][NextView]_vars

(***************************************************************************)
(* Properties of Button (specification Spec).                              *)
(***************************************************************************)
Last(seq) == seq[Len(seq)]

S_class_hello ==
    <<"b", "u", "t", "t", "o", "n", " ", "s", "t", "a", "n", "d", "a", "r", "d",
      " ", "m", "e", "d", "i", "u", "m", " ", "r", "e", "g", "u", "l", "a", "r",
      " ", "h", "e", "l", "l", "o", "-", "w", "o", "r", "l", "d">>

S_class_plain ==
    <<"b", "u", "t", "t", "o", "n", " ", "s", "t", "a", "n", "d", "a", "r", "d",
      " ", "m", "e", "d", "i", "u", "m", " ", "r", "e", "g", "u", "l", "a", "r">>

IsStandardMediumRegular(p) ==
    /\ p.button_type = "Standard"
    /\ p.size = "Medium"
    /\ p.button_style = "Regular"

\* C1: the class string Button.view renders is "button", the palette token,
\* the size token (Small "small", Medium "medium", Big "big"), the style token
\* and the caller's class name, in this order, each two separated by one
\* space; for {Standard, Medium, Regular, "hello-world"} it is exactly
\* "button standard medium regular hello-world".
C1_ClassStringOrder ==
    LET p == b_supplied
        size_token == CASE p.size = "Small"  -> <<"s", "m", "a", "l", "l">>
                        [] p.size = "Medium" -> <<"m", "e", "d", "i", "u", "m">>
                        [] p.size = "Big"    -> <<"b", "i", "g">>
        tokens == <<S_button, get_pallete(p.button_type), size_token,
                    get_style(p.button_style), p.class_name>>
        starts == [i \in 1..5 |->
                      IF i = 1 THEN 1
                      ELSE i + Len(tokens[1]) +
                           (IF i > 2 THEN Len(tokens[2]) ELSE 0) +
                           (IF i > 3 THEN Len(tokens[3]) ELSE 0) +
                           (IF i > 4 THEN Len(tokens[4]) ELSE 0)]
    IN  /\ Len(b_class) = 4 + Len(tokens[1]) + Len(tokens[2]) + Len(tokens[3])
                            + Len(tokens[4]) + Len(tokens[5])
        /\ \A i \in 1..5 :
              /\ SubSeq(b_class, starts[i], starts[i] + Len(tokens[i]) - 1) = tokens[i]
              /\ i > 1 => b_class[starts[i] - 1] = SP
        /\ (IsStandardMediumRegular(p) /\ p.class_name = S_hello_world)
              => b_class = S_class_hello

C1_Witness ==
    /\ b_op = "change"
    /\ IsStandardMediumRegular(b_supplied)
    /\ b_supplied.class_name = S_hello_world
    /\ b_class = S_class_hello

\* C2: with an empty caller class name the class string for {Standard,
\* Medium, Regular} is exactly "button standard medium regular": the empty
\* token is left out and there is no leading, trailing or doubled space.
C2_EmptyTokenOmitted ==
    (IsStandardMediumRegular(b_supplied) /\ b_supplied.class_name = S_empty)
        => /\ b_class = S_class_plain
           /\ Head(b_class) # SP
           /\ Last(b_class) # SP
           /\ \A i \in 1..(Len(b_class) - 1) :
                 ~(b_class[i] = SP /\ b_class[i + 1] = SP)

\* C3: every click produces exactly one Msg::Clicked and every handled
\* Msg::Clicked exactly one emission, made on the onsignal callback the props
\* hold at that moment, with the unit payload; once all clicks are handled
\* the number of emissions is the number of clicks.
C3_OneSignalPerClick ==
    /\ Len(b_msgs) + Len(b_emitted) = b_clicks
    /\ \A i \in DOMAIN b_msgs : b_msgs[i] = "Clicked"
    /\ \A i \in DOMAIN b_emitted : b_emitted[i].arg = << >>
    /\ b_op = "update" => /\ b_emitted # << >>
                          /\ Last(b_emitted).cb = b_props.onsignal
    /\ b_msgs = << >> => Len(b_emitted) = b_clicks

C3_Witness ==
    /\ b_clicks = 2
    /\ b_msgs = << >>
    /\ Len(b_emitted) = 2
    /\ b_emitted[1].cb # b_emitted[2].cb
    /\ b_op = "update"

\* C5: the stored properties and the rendered class string are those of the
\* property set supplied last; change stores the new set whole and asks for
\* a render; a click and its handling leave properties and class string alone.
C5_ClassFollowsProps ==
    /\ [](/\ b_props.button_type = get_pallete(b_supplied.button_type)
          /\ b_props.size = get_size(b_supplied.size)
          /\ b_props.button_style = get_style(b_supplied.button_style)
          /\ b_props.class_name = b_supplied.class_name
          /\ b_props.onsignal = b_supplied.onsignal
          /\ b_class = Button_view(b_props)
          /\ b_op = "change" => b_render)
    /\ [][b_op' \in {"click", "update"}
            => /\ b_props' = b_props
               /\ b_class' = b_class
               /\ b_supplied' = b_supplied]_vars

C5_Witness ==
    /\ b_op = "change"
    /\ Len(b_emitted) = 1
    /\ b_emitted[1].cb # b_props.onsignal
    /\ b_supplied.button_type = "Danger"
    /\ b_supplied.class_name = S_hello_world
    /\ b_msgs # << >>

(***************************************************************************)
(* Properties of the FormTextArea life cycle (specification SpecTextArea). *)
(***************************************************************************)
\* C4: every native event becomes one message of its own kind and one
\* emission on its own callback (input: oninput_signal, blur: onblur_signal,
\* keydown: onkeydown_signal), in the order received, carrying the event
\* object received; nothing is dropped, duplicated or sent elsewhere.
C4_EventsForwarded ==
    LET done == Len(t_emitted)
        OwnMsg(kind) == CASE kind = "input"   -> "Input"
                          [] kind = "blur"    -> "Blur"
                          [] kind = "keydown" -> "KeyPressed"
        OwnCallbacks(kind) == CASE kind = "input"   -> InputCallbacks
                                [] kind = "blur"    -> BlurCallbacks
                                [] kind = "keydown" -> KeydownCallbacks
        Held(kind) == CASE kind = "input"   -> t_props.oninput_signal
                        [] kind = "blur"    -> t_props.onblur_signal
                        [] kind = "keydown" -> t_props.onkeydown_signal
    IN  /\ done + Len(t_msgs) = Len(t_events)
        /\ \A i \in DOMAIN t_emitted :
              /\ t_emitted[i].arg = t_events[i].arg
              /\ t_emitted[i].cb \in OwnCallbacks(t_events[i].event)
        /\ \A j \in DOMAIN t_msgs :
              /\ t_msgs[j].arg = t_events[done + j].arg
              /\ t_msgs[j].msg = OwnMsg(t_events[done + j].event)
        /\ t_op = "update" => /\ done > 0
                              /\ Last(t_emitted).cb = Held(t_events[done].event)

C4_Witness ==
    /\ Len(t_emitted) = 2
    /\ t_events[1] = [event |-> "blur", arg |-> "e2"]
    /\ t_events[2] = [event |-> "keydown", arg |-> "e1"]
    /\ t_emitted[1] = [cb |-> "blur_a", arg |-> "e2"]
    /\ t_emitted[2] = [cb |-> "keydown_b", arg |-> "e1"]

\* C10: change asks for a render exactly when the new properties differ from
\* the stored ones and stores the new properties either way; a change with
\* equal properties leaves properties and markup as they were; events and
\* their handling never touch the stored properties.
C10_ChangeRendersIffDifferent ==
    /\ [](t_props = t_supplied)
    /\ [][/\ t_op' = "change"
             => /\ t_render' = (t_props # t_supplied')
                /\ t_props' = t_supplied'
                /\ (t_props = t_supplied') => (t_html' = t_html /\ ~t_render')
          /\ t_op' \in {"input", "blur", "keydown", "update"}
             => t_props' = t_props]_vars

C10_Witness ==
    /\ t_op = "change"
    /\ ~t_render
    /\ Len(t_emitted) = 1
    /\ t_msgs # << >>

(***************************************************************************)
(* Properties of FormTextArea::view (specification SpecView).              *)
(***************************************************************************)
Rendered == v_out # None /\ ~v_out[1].panic

\* The tokens of a sequence of class tokens, as a set.
Tokens(seq) == {seq[i] : i \in DOMAIN seq}

\* The entries of the "outline" sub-table named by textarea_style, by index.
OutlineHits ==
    IF "outline" \in DOMAIN v_styles
    THEN {i \in DOMAIN v_styles["outline"] :
             v_styles["outline"][i].name = get_palette(v_props.textarea_style)}
    ELSE {}

FirstHit == v_styles["outline"][CHOOSE i \in OutlineHits : \A j \in OutlineHits : i <= j]

\* C6 as stated: the class of the style override is the last entry of the
\* class list, after the composed style class, the size token and the
\* caller's class name, for every property set.
C6_OverrideAlwaysLast ==
    Rendered =>
        LET class == v_out[1].class
            override == Style_get_class_name(v_props.styles)
        IN  /\ class # << >>
            /\ Last(class) = override
            /\ \A i \in 1..(Len(class) - 1) : class[i] # override

\* C6, amended: the class list holds the composed style class first, the
\* size token, every class of the caller's class name and the class of the
\* style override; the override's class is the last entry whenever it is not
\* already one of the entries before it (a class listed twice keeps its
\* first place).
C6_OverrideMergedLastUnlessRepeated ==
    Rendered =>
        LET class == v_out[1].class
            override == Style_get_class_name(v_props.styles)
            composed == Style_get_class_name(v_sheet[1])
            size == IF v_props.textarea_size = "Small" THEN S_small
                    ELSE IF v_props.textarea_size = "Medium" THEN S_medium
                    ELSE S_big
            before == {composed, size} \cup Tokens(split_whitespace(v_props.class_name))
        IN  /\ class[1] = composed
            /\ Tokens(class) = before \cup {override}
            /\ \A i, j \in DOMAIN class : i # j => class[i] # class[j]
            /\ override \notin before => Last(class) = override

C6_Witness ==
    /\ Rendered
    /\ v_props.class_name = S_my_class
    /\ v_props.styles = Css_background
    /\ Len(v_out[1].class) = 4
    /\ v_out[1].class[3] = S_my_class
    /\ v_out[1].class[4] = <<"c", "s", "s", "-", "1">>

\* C7: a palette lookup that finds no entry ("outline" missing from the
\* table, or no entry of it named by textarea_style) is fatal: view panics
\* and no sheet is produced; otherwise the sheet is built from the first
\* entry of the "outline" sub-table with that name.
C7_MissingEntryIsFatal ==
    v_out # None =>
        IF OutlineHits = {}
        THEN v_out[1].panic /\ v_sheet = None /\ v_out[1].class = << >>
        ELSE /\ ~v_out[1].panic
             /\ v_sheet # None
             /\ \A i \in DOMAIN v_sheet[1] :
                   LET rule == v_sheet[1][i]
                   IN  /\ (rule.sel = "&" /\ rule.prop = "border")
                            => rule.color = FirstHit.border_color
                       /\ rule.prop = "color" => rule.color = FirstHit.color

C7_Witness ==
    /\ v_out # None
    /\ v_out[1].panic
    /\ "outline" \in DOMAIN v_styles
    /\ v_props.textarea_style = "Danger"

\* C8: every hover rule of the sheet carries darker(border_color, -20),
\* every focus rule darker(border_color, -10) and every active rule
\* darker(border_color, -30), border_color being that of the palette entry.
C8_InteractionDeltas ==
    Rendered =>
        \A i \in DOMAIN v_sheet[1] :
            LET rule == v_sheet[1][i]
                border == FirstHit.border_color
            IN  /\ rule.sel \in {"&:hover", "&.underline:hover"}
                      => rule.color = darker(border, 0 - 20)
                /\ rule.sel \in {"&:focus", "&.underline:focus"}
                      => rule.color = darker(border, 0 - 10)
                /\ rule.sel \in {"&:active", "&.underline:active"}
                      => rule.color = darker(border, 0 - 30)

C8_Witness ==
    /\ Rendered
    /\ v_props.textarea_style = "Standard"
    /\ v_styles = get_styles
    /\ \E i \in DOMAIN v_sheet[1] :
          v_sheet[1][i] = Col("&.underline:hover", "border-bottom-color", 30)
    /\ \E i \in DOMAIN v_sheet[1] :
          v_sheet[1][i] = Col("&:focus", "border-color", 40)
    /\ \E i \in DOMAIN v_sheet[1] :
          v_sheet[1][i] = Col("&.underline:active", "border-bottom-color", 20)

\* C9: the wrap value rendered names the wrap mode of the property: "hard"
\* for WrapText::Hard, "soft" for WrapText::Soft, "off" for WrapText::Off.
C9_WrapNamesItsMode ==
    Rendered =>
        v_out[1].warp = CASE v_props.wrap = "Hard" -> S_hard
                          [] v_props.wrap = "Soft" -> S_soft
                          [] v_props.wrap = "Off"  -> S_off

====
